---- MODULE Spec2Model ----
(***************************************************************************)
(* piano-rs: the three threads of src/main.rs (main/game_loop, the network *)
(* receive loop, play_from_file) over the shared Mutex<Sender>,            *)
(* Mutex<PianoKeyboard> and Mutex<RustBox>.                                *)
(*                                                                         *)
(* piano_rs::network (Sender, Receiver) and piano_rs::game are not part of *)
(* the sources at hand; Tick*, Register*, and the outcomes of poll_event,  *)
(* process_key and play_note follow the written specification.             *)
(***************************************************************************)
EXTENDS Integers, Sequences, FiniteSets, TLC

\* ---- bounds ----------------------------------------------------------
MaxPeers == 2       \* longest peer list / directory
MaxEvents == 2      \* datagrams the receive loop polls
MaxKeys == 1        \* notes played on the local keyboard
MaxRecords == 1     \* records of the play file

\* ---- values ----------------------------------------------------------
Threads == {"main", "dispatcher", "playback"}
Tickers == {"main", "playback"}
Locks == {"keyboard", "sender", "rustbox"}

V4 == {"1.2.3.4", "9.9.9.9"}
V6 == {"::1"}
Ports == {5000, 6000}
SrcPorts == {40000}
SocketAddr == V4 \X Ports
PeerPool == {<<"1.2.3.4", 6000>>, <<"9.9.9.9", 5000>>}
PeersSrc == {"9.9.9.9", "::1"}
JoinSrc == {"1.2.3.4", "::1"}
PeersPorts == {5000}
ParseError == <<"AddrParseError", 0>>

Colors == {"Blue", "Red", "Green", "Yellow", "Cyan", "Magenta", "Black"}
NoteColors == {"Red", "Green"}
Tempos == {0, 2}
DefaultTempo == CHOOSE t \in Tempos : t > 0
Delays == {100}
Ids == 0..6

RECURSIVE SeqsUpTo(_, _)
SeqsUpTo(S, n) ==
    IF n = 0 THEN {<<>>}
    ELSE LET shorter == SeqsUpTo(S, n - 1)
         IN  shorter \cup {Append(s, x) : s \in {q \in shorter : Len(q) = n - 1}, x \in S}

Range(s) == {s[i] : i \in 1..Len(s)}
Count(s, a) == Cardinality({i \in 1..Len(s) : s[i] = a})

NoNote == [color |-> "none"]
NoEvent == [kind |-> "none", src |-> <<"1.2.3.4", 40000>>, port |-> 5000,
            peers |-> <<>>, id |-> 0, color |-> "none"]
Ev(kind, src, port, peers, id, c) ==
    [kind |-> kind, src |-> src, port |-> port, peers |-> peers, id |-> id, color |-> c]

\* what Receiver::poll_event can return as Ok(data), by variant
JoinEvents ==
    {Ev("PlayerJoin", <<ip, sp>>, p, <<>>, 0, "none") :
        ip \in JoinSrc, sp \in SrcPorts, p \in Ports}
PeersEvents ==
    {Ev("Peers", <<ip, sp[1]>>, sp[2], l, 0, "none") :
        ip \in PeersSrc, sp \in SrcPorts \X PeersPorts, l \in SeqsUpTo(PeerPool, MaxPeers)}
IdEvents ==
    {Ev("ID", <<"9.9.9.9", sp>>, 5000, <<>>, id, "none") : sp \in SrcPorts, id \in Ids}
NoteEvents ==
    {Ev("Note", <<"9.9.9.9", sp>>, 5000, <<>>, 0, c) : sp \in SrcPorts, c \in NoteColors}
OtherEvents ==
    {Ev("Other", <<"9.9.9.9", sp>>, 5000, <<>>, 0, "none") : sp \in SrcPorts}

IdleTick == [id |-> 0, idx |-> 0, snap |-> <<>>, sent |-> <<>>]

VARIABLES
    pc,          \* position of each thread
    lock,        \* owner of each Mutex, or "none"
    poisoned,    \* Mutexes whose holder panicked
    peer_addrs,  \* Sender.peer_addrs
    color,       \* PianoKeyboard.color
    data,        \* what poll_event returned to the iteration in progress
    polled,      \* datagrams polled so far
    note,        \* the note a thread is about to hand to tick
    tk,          \* progress of a thread's tick
    result,      \* what each thread's last tick returned
    sentTick,    \* number of the tick whose datagram was sent last
    nextTick,    \* number of the next tick call
    keys,        \* notes played on the local keyboard so far
    tempo,       \* arguments.play_file_tempo
    play_file,   \* arguments.play_file.is_some()
    records,     \* records play_from_file has not consumed yet
    joinSent,    \* PlayerJoin datagrams sent by register_self
    lastId,      \* id of the last ID event handled, -1 if none
    lastPeers,   \* the last Peers event handled, NoEvent if none
    arrived,     \* colors of the Note events poll_event has returned, in order
    rendered,    \* colors of the notes handed to play_note, in order
    origin       \* how peer_addrs got its value (see JoinOrigin, PeersOrigin)

vars == <<pc, lock, poisoned, peer_addrs, color, data, polled, note, tk, result,
          sentTick, nextTick, keys, tempo, play_file, records, joinSent, lastId,
          lastPeers, arrived, rendered, origin>>

netVars == <<peer_addrs, lastPeers, origin>>
tickVars == <<tk, result, sentTick, nextTick>>
cfgVars == <<tempo, play_file>>
drawVars == <<arrived, rendered>>

\* ---- pure functions --------------------------------------------------

\* IdColor with the arm `5 => Color::Magenta` lost
IdColor_NoMagenta(id) ==
    CASE id = 0 -> "Blue"
      [] id = 1 -> "Red"
      [] id = 2 -> "Green"
      [] id = 3 -> "Yellow"
      [] id = 4 -> "Cyan"
      [] OTHER -> "Black"

\* match id { 0 => Blue, ... , _ => Black }
IdColor(id) ==
    CASE id = 0 -> "Blue"
      [] id = 1 -> "Red"
      [] id = 2 -> "Green"
      [] id = 3 -> "Yellow"
      [] id = 4 -> "Cyan"
      [] id = 5 -> "Magenta"
      [] OTHER -> "Black"

\* format!("{}:{}", ip, port): an Ipv6Addr is displayed without brackets
FormatAddr(ip, port) == <<ip, ":", port>>

\* str::parse::<SocketAddr>: "ip:port" parses for an IPv4 ip only; an
\* IPv6 socket address must be written "[ip]:port"
ParseAddr(s) == IF s[1] \in V6 THEN ParseError ELSE <<s[1], s[3]>>

\* RemoteAddr built from the datagram's source port, not the payload's port
RemoteAddr_SrcPort(d) == <<d.src[1], d.src[2]>>

\* format!("{}:{}", data.src.ip(), port).parse()
RemoteAddr(d) == ParseAddr(FormatAddr(d.src[1], d.port))

\* PatchPeers that pushes the address in front instead of overwriting slot 0
PatchPeers_Insert(peers, addr) == <<addr>> \o peers

\* peers[0] = addr
PatchPeers(peers, addr) == [peers EXCEPT ![1] = addr]

\* ReplaceDirectory that merges the list into the directory
ReplaceDirectory_Merge(dir, peers) ==
    dir \o SelectSeq(peers, LAMBDA a : a \notin {dir[i] : i \in 1..Len(dir)})

\* peer_addrs = peers
ReplaceDirectory(dir, peers) == peers

\* Sender::register_remote_socket's directory update
Register(dir, addr) == IF addr \in Range(dir) THEN dir ELSE Append(dir, addr)

\* (delay.as_millis() as f32 / tempo) as u64: the cast saturates
NormalizedDelay(delay, t) ==
    IF t > 0 THEN [saturated |-> FALSE, millis |-> delay \div t]
    ELSE IF t = 0 /\ delay > 0 THEN [saturated |-> TRUE, millis |-> 0]
    ELSE [saturated |-> FALSE, millis |-> 0]

\* ---- locks and panics ------------------------------------------------

\* a lock that never blocks
CanLock_NoMutex(l) == TRUE

\* Mutex::lock blocks while another thread holds the guard
CanLock(l) == lock[l] = "none"

Held(t) == {l \in Locks : lock[l] = t}

\* background threads that would run on after main has returned
Alive_Detached == TRUE

\* the process lives until main returns or panics
Alive == pc["main"] \notin {"exit_ok", "exit_err", "panicked"}

\* unwinding drops the guards of t and poisons their Mutexes
Panic(t) ==
    /\ pc' = [pc EXCEPT ![t] = "panicked"]
    /\ lock' = [l \in Locks |-> IF lock[l] = t THEN "none" ELSE lock[l]]
    /\ poisoned' = poisoned \cup Held(t)

\* x.lock().unwrap() by t, which goes on to `next` holding the guard
Acquire(t, l, next) ==
    /\ CanLock(l)
    /\ IF l \in poisoned
       THEN Panic(t)
       ELSE /\ lock' = [lock EXCEPT ![l] = t]
            /\ pc' = [pc EXCEPT ![t] = next]
            /\ UNCHANGED poisoned

Release(t, ls, next) ==
    /\ lock' = [l \in Locks |-> IF l \in ls /\ lock[l] = t THEN "none" ELSE lock[l]]
    /\ pc' = [pc EXCEPT ![t] = next]
    /\ UNCHANGED poisoned

Goto(t, next) ==
    /\ pc' = [pc EXCEPT ![t] = next]
    /\ UNCHANGED <<lock, poisoned>>

\* a RustBox guard that is a temporary of the scrutinee of `match`
\* and so lives as long as the match
AfterPeek_InScrutinee == {"rustbox"}

\* the guards alive after
\*   let event = rustbox.lock().unwrap().peek_event(duration, false);
\* the RustBox guard is a temporary of the let and is dropped at its end
AfterPeek == {}

Init ==
    /\ pc = [t \in Threads |-> IF t = "main" THEN "start" ELSE "unstarted"]
    /\ lock = [l \in Locks |-> "none"]
    /\ poisoned = {}
    /\ peer_addrs = <<>>
    /\ color = "Blue"
    /\ data = NoEvent
    /\ polled = 0
    /\ note = [t \in Tickers |-> NoNote]
    /\ tk = [t \in Tickers |-> IdleTick]
    /\ result = [t \in Tickers |-> "none"]
    /\ sentTick = 0
    /\ nextTick = 1
    /\ keys = 0
    /\ play_file \in BOOLEAN
    /\ tempo \in IF play_file THEN Tempos ELSE {DefaultTempo}
    /\ records \in IF play_file THEN [1..MaxRecords -> Delays] ELSE {<<>>}
    /\ joinSent = 0
    /\ lastId = -1
    /\ lastPeers = NoEvent
    /\ arrived = <<>>
    /\ rendered = <<>>
    /\ origin = "new"

\* ---- Sender::tick (both callers) -------------------------------------

\* thread::sleep(normalized_delay) of play_from_file: a saturated delay
\* (u64::MAX milliseconds) never elapses
Slept(t) ==
    t = "playback" => ~NormalizedDelay(Head(records), tempo).saturated

\* [thread::sleep(normalized_delay);] event_sender.lock().unwrap().tick(note):
\* the guard is taken and tick starts
TickLock(t) ==
    /\ Alive
    /\ pc[t] = "tick_lock"
    /\ Slept(t)
    /\ CanLock("sender")
    /\ IF "sender" \in poisoned
       THEN /\ Panic(t)
            /\ UNCHANGED tickVars
       ELSE /\ lock' = [lock EXCEPT !["sender"] = t]
            /\ pc' = [pc EXCEPT ![t] = "tick"]
            /\ tk' = [tk EXCEPT ![t] = [id |-> nextTick, idx |-> 1,
                                        snap |-> peer_addrs, sent |-> <<>>]]
            /\ nextTick' = nextTick + 1
            /\ UNCHANGED <<poisoned, result, sentTick>>
    /\ UNCHANGED <<netVars, cfgVars, drawVars, color, data, polled, note, keys, records,
                   joinSent, lastId>>

\* a fan-out that misses the last address
TickMore_SkipLast(t) == tk[t].idx < Len(peer_addrs)

\* the fan-out of tick has another address to send to
TickMore(t) == tk[t].idx <= Len(peer_addrs)

\* one send of the fan-out; a failed send does not stop the loop
TickSend(t) ==
    /\ Alive
    /\ pc[t] = "tick"
    /\ TickMore(t)
    /\ tk' = [tk EXCEPT ![t].idx = @ + 1,
                        ![t].sent = Append(@, peer_addrs[tk[t].idx])]
    /\ sentTick' = tk[t].id
    /\ UNCHANGED <<pc, lock, poisoned, netVars, cfgVars, drawVars, color, data, polled,
                   note, result, nextTick, keys, records, joinSent, lastId>>

\* what tick can return: Err(IOError) if one of its sends failed
TickResults(t) == IF tk[t].sent = <<>> THEN {"Ok"} ELSE {"Ok", "Err"}

\* tick returns r and the caller unwraps it; the note was moved into tick
TickReturn(t, r) ==
    /\ Alive
    /\ pc[t] = "tick"
    /\ ~TickMore(t)
    /\ r \in TickResults(t)
    /\ result' = [result EXCEPT ![t] = r]
    /\ tk' = [tk EXCEPT ![t] = IdleTick]
    /\ note' = [note EXCEPT ![t] = NoNote]
    /\ IF r = "Err"
       THEN /\ Panic(t)
            /\ UNCHANGED records
       ELSE IF t = "main"
       THEN /\ Release(t, {"sender", "keyboard"} \cup AfterPeek, "peek")
            /\ UNCHANGED records
       ELSE /\ Release(t, {"sender"}, IF Tail(records) = <<>> THEN "done" ELSE "next")
            /\ records' = Tail(records)
    /\ UNCHANGED <<netVars, cfgVars, drawVars, color, data, polled, sentTick,
                   nextTick, keys, joinSent, lastId>>

\* ---- main and game_loop ----------------------------------------------

\* Options::read, Receiver::new?, Sender::new?, RustBox::init, PianoKeyboard::new, draw
MainSetup(ok) ==
    /\ pc["main"] = "start"
    /\ Goto("main", IF ok THEN "spawn" ELSE "exit_err")
    /\ UNCHANGED <<netVars, tickVars, cfgVars, drawVars, color, data, polled, note, keys,
                   records, joinSent, lastId>>

\* a main that calls register_self before it spawns the receive thread
MainSpawnDispatcher_Late ==
    /\ pc["main"] = "spawn"
    /\ pc' = [pc EXCEPT !["main"] = "register_self"]
    /\ UNCHANGED <<lock, poisoned, netVars, tickVars, cfgVars, drawVars, color, data,
                   polled, note, keys, records, joinSent, lastId>>

\* thread::spawn(move || loop { handle_network_receive_event(..) })
MainSpawnDispatcher ==
    /\ pc["main"] = "spawn"
    /\ pc' = [pc EXCEPT !["main"] = "register_self", !["dispatcher"] = "poll"]
    /\ UNCHANGED <<lock, poisoned, netVars, tickVars, cfgVars, drawVars, color, data,
                   polled, note, keys, records, joinSent, lastId>>

\* event_sender.lock().unwrap()
MainRegisterSelfLock ==
    /\ pc["main"] = "register_self"
    /\ Acquire("main", "sender", "in_register_self")
    /\ UNCHANGED <<netVars, tickVars, cfgVars, drawVars, color, data, polled, note, keys,
                   records, joinSent, lastId>>

\* .register_self(port)?: one PlayerJoin datagram to the host address
MainRegisterSelfSend(ok) ==
    /\ pc["main"] = "in_register_self"
    /\ joinSent' = joinSent + 1
    /\ Release("main", {"sender"}, IF ok THEN "spawn_playback" ELSE "exit_err")
    /\ UNCHANGED <<netVars, tickVars, cfgVars, drawVars, color, data, polled, note, keys,
                   records, lastId>>

\* if let Some(v) = arguments.record_file { keyboard.lock().unwrap().set_record_file(..) }
\* if let Some(v) = arguments.play_file { thread::spawn(move || play_from_file(..)) }
MainSpawnPlayback(has) ==
    /\ pc["main"] = "spawn_playback"
    /\ has => CanLock("keyboard")
    /\ IF has /\ "keyboard" \in poisoned
       THEN Panic("main")
       ELSE /\ pc' = [pc EXCEPT !["main"] = "peek",
                                !["playback"] = IF play_file THEN "next" ELSE @]
            /\ UNCHANGED <<lock, poisoned>>
    /\ UNCHANGED <<netVars, tickVars, cfgVars, drawVars, color, data, polled, note, keys,
                   records, joinSent, lastId>>

\* rustbox.lock().unwrap().peek_event(..) returns a key event or an error;
\* Err(e) => panic!. A turn without an event changes nothing.
GamePeek(e) ==
    /\ pc["main"] = "peek"
    /\ CanLock("rustbox")
    /\ IF "rustbox" \in poisoned
       THEN Panic("main")
       ELSE IF e = "Err"
       THEN /\ pc' = [pc EXCEPT !["main"] = "panicked"]
            /\ poisoned' = poisoned \cup AfterPeek
            /\ UNCHANGED lock
       ELSE /\ pc' = [pc EXCEPT !["main"] = "key"]
            /\ lock' = [l \in Locks |-> IF l \in AfterPeek THEN "main" ELSE lock[l]]
            /\ UNCHANGED poisoned
    /\ UNCHANGED <<netVars, tickVars, cfgVars, drawVars, color, data, polled, note,
                   keys, records, joinSent, lastId>>

\* match keyboard.lock().unwrap().process_key(key) { Note => tick, Quit => break,
\* None => {} }: the keyboard guard is a temporary of the scrutinee and lives
\* until the end of the match, so across the tick of the Note arm.
GameKey(ge) ==
    /\ pc["main"] = "key"
    /\ CanLock("keyboard")
    /\ IF "keyboard" \in poisoned
       THEN /\ Panic("main")
            /\ UNCHANGED <<note, keys>>
       ELSE CASE ge = "Note" ->
                   /\ keys < MaxKeys
                   /\ lock' = [lock EXCEPT !["keyboard"] = "main"]
                   /\ pc' = [pc EXCEPT !["main"] = "tick_lock"]
                   /\ note' = [note EXCEPT !["main"] = [color |-> color]]
                   /\ keys' = keys + 1
                   /\ UNCHANGED poisoned
              [] ge = "Quit" ->
                   /\ Release("main", AfterPeek, "exit_ok")
                   /\ UNCHANGED <<note, keys>>
              [] OTHER ->
                   /\ Release("main", AfterPeek, "peek")
                   /\ UNCHANGED <<note, keys>>
    /\ UNCHANGED <<netVars, tickVars, cfgVars, drawVars, color, data, polled, records,
                   joinSent, lastId>>

\* ---- play_from_file --------------------------------------------------

\* Note::from(base_note, keyboard.lock().unwrap().color, duration)
PlayNote ==
    /\ Alive
    /\ pc["playback"] = "next"
    /\ records # <<>>
    /\ CanLock("keyboard")
    /\ IF "keyboard" \in poisoned
       THEN /\ Panic("playback")
            /\ UNCHANGED note
       ELSE /\ Goto("playback", "tick_lock")
            /\ note' = [note EXCEPT !["playback"] = [color |-> color]]
    /\ UNCHANGED <<netVars, tickVars, cfgVars, drawVars, color, data, polled, keys, records,
                   joinSent, lastId>>

\* ---- handle_network_receive_event ------------------------------------
\* One iteration is poll_event, the match on data.event and, in the arms
\* that call into the Sender or the render backend, the call under the guard.
\* `data` is a local of the iteration and is gone when the function returns.

\* event_receiver.poll_event() returns Err(e), and .unwrap() panics
DispatchPollErr(e) ==
    /\ Alive
    /\ pc["dispatcher"] = "poll"
    /\ polled < MaxEvents
    /\ polled' = polled + 1
    /\ data' = [NoEvent EXCEPT !.kind = e]
    /\ Panic("dispatcher")
    /\ UNCHANGED <<netVars, tickVars, cfgVars, drawVars, color, note, keys, records,
                   joinSent, lastId>>

\* how the directory got its value, after a registration of addr
JoinOrigin(dir, addr) ==
    IF origin \in {"new", "join", "rejoin"}
    THEN IF addr \in Range(dir) THEN "rejoin" ELSE "join"
    ELSE "mixed"

\* how the directory got its value, after a Peers event installed newdir
PeersOrigin(dir, newdir) ==
    IF origin \in {"peers", "replaced"} /\ Range(dir) \ Range(newdir) # {}
    THEN "replaced" ELSE "peers"

\* NetworkEvent::PlayerJoin(port): parse the address, then event_sender.lock().unwrap()
HandlePlayerJoin(ev) ==
    /\ Alive
    /\ pc["dispatcher"] = "poll"
    /\ polled < MaxEvents
    /\ ev.kind = "PlayerJoin"
    /\ Len(peer_addrs) < MaxPeers
    /\ polled' = polled + 1
    /\ IF RemoteAddr(ev) = ParseError
       THEN /\ Panic("dispatcher")
            /\ UNCHANGED data
       ELSE /\ Acquire("dispatcher", "sender", "register")
            /\ data' = IF "sender" \in poisoned THEN data ELSE ev
    /\ UNCHANGED <<netVars, tickVars, cfgVars, drawVars, color, note, keys, records,
                   joinSent, lastId>>

\* Sender::register_remote_socket(local_port, remote_receiver_addr).unwrap():
\* the directory update, then the ID and Peers datagrams
RegisterRemoteSocket(ok) ==
    /\ Alive
    /\ pc["dispatcher"] = "register"
    /\ peer_addrs' = Register(peer_addrs, RemoteAddr(data))
    /\ origin' = JoinOrigin(peer_addrs, RemoteAddr(data))
    /\ IF ok THEN Release("dispatcher", {"sender"}, "poll") ELSE Panic("dispatcher")
    /\ data' = NoEvent
    /\ UNCHANGED <<lastPeers, tickVars, cfgVars, drawVars, color, polled, note, keys,
                   records, joinSent, lastId>>

\* NetworkEvent::Peers(port, mut peers): peers[0] = ..parse().unwrap(), then
\* event_sender.lock().unwrap().peer_addrs = peers
HandlePeers(ev) ==
    /\ Alive
    /\ pc["dispatcher"] = "poll"
    /\ polled < MaxEvents
    /\ ev.kind = "Peers"
    /\ polled' = polled + 1
    /\ IF RemoteAddr(ev) = ParseError \/ ev.peers = <<>>
       THEN /\ Panic("dispatcher")
            /\ UNCHANGED netVars
       ELSE /\ CanLock("sender")
            /\ IF "sender" \in poisoned
               THEN /\ Panic("dispatcher")
                    /\ UNCHANGED netVars
               ELSE /\ peer_addrs' = ReplaceDirectory(peer_addrs,
                                                    PatchPeers(ev.peers, RemoteAddr(ev)))
                    /\ lastPeers' = ev
                    /\ origin' = PeersOrigin(peer_addrs, peer_addrs')
                    /\ UNCHANGED <<pc, lock, poisoned>>
    /\ UNCHANGED <<tickVars, cfgVars, drawVars, color, data, note, keys, records, joinSent,
                   lastId>>

\* NetworkEvent::ID(id): keyboard.lock().unwrap().set_note_color(..)
HandleID(ev) ==
    /\ Alive
    /\ pc["dispatcher"] = "poll"
    /\ polled < MaxEvents
    /\ ev.kind = "ID"
    /\ polled' = polled + 1
    /\ CanLock("keyboard")
    /\ IF "keyboard" \in poisoned
       THEN /\ Panic("dispatcher")
            /\ UNCHANGED <<color, lastId>>
       ELSE /\ Goto("dispatcher", "poll")
            /\ color' = IdColor(ev.id)
            /\ lastId' = ev.id
    /\ UNCHANGED <<netVars, tickVars, cfgVars, drawVars, data, note, keys, records, joinSent>>

\* a Note arm that also takes the note's color as the local color
HandleNote_TakesColor(ev) ==
    /\ Alive
    /\ pc["dispatcher"] = "poll"
    /\ polled < MaxEvents
    /\ ev.kind = "Note"
    /\ polled' = polled + 1
    /\ Acquire("dispatcher", "keyboard", "play_note")
    /\ data' = IF "keyboard" \in poisoned THEN data ELSE ev
    /\ color' = IF "keyboard" \in poisoned THEN color ELSE ev.color
    /\ arrived' = Append(arrived, ev.color)
    /\ UNCHANGED <<netVars, tickVars, cfgVars, rendered, note, keys, records,
                   joinSent, lastId>>

\* NetworkEvent::Note(note): keyboard.lock().unwrap()
HandleNote(ev) ==
    /\ Alive
    /\ pc["dispatcher"] = "poll"
    /\ polled < MaxEvents
    /\ ev.kind = "Note"
    /\ polled' = polled + 1
    /\ Acquire("dispatcher", "keyboard", "play_note")
    /\ data' = IF "keyboard" \in poisoned THEN data ELSE ev
    /\ arrived' = Append(arrived, ev.color)
    /\ UNCHANGED <<netVars, tickVars, cfgVars, rendered, color, note, keys, records,
                   joinSent, lastId>>

\* a render that is given the local color instead of the note's
PlayNoteArg_LocalColor(n, local) == local

\* the note play_note is given: the event's note, color included
PlayNoteArg(n, local) == n

\* .play_note(note, &rustbox): drawn under the RustBox guard
PlayNoteRender ==
    /\ Alive
    /\ pc["dispatcher"] = "play_note"
    /\ CanLock("rustbox")
    /\ IF "rustbox" \in poisoned
       THEN /\ Panic("dispatcher")
            /\ UNCHANGED rendered
       ELSE /\ Release("dispatcher", {"keyboard"}, "poll")
            /\ rendered' = Append(rendered, PlayNoteArg(data.color, color))
    /\ data' = NoEvent
    /\ UNCHANGED <<netVars, tickVars, cfgVars, arrived, color, polled, note, keys,
                   records, joinSent, lastId>>

\* _ => { }
HandleOther(ev) ==
    /\ Alive
    /\ pc["dispatcher"] = "poll"
    /\ polled < MaxEvents
    /\ ev.kind = "Other"
    /\ polled' = polled + 1
    /\ UNCHANGED <<pc, lock, poisoned, netVars, tickVars, cfgVars, drawVars, color, data,
                   note, keys, records, joinSent, lastId>>

Next ==
    \/ \E ok \in BOOLEAN : MainSetup(ok)
    \/ MainSpawnDispatcher
    \/ MainRegisterSelfLock
    \/ \E ok \in BOOLEAN : MainRegisterSelfSend(ok)
    \/ \E has \in BOOLEAN : MainSpawnPlayback(has)
    \/ \E e \in {"Key", "Err"} : GamePeek(e)
    \/ \E ge \in {"Note", "Quit", "None"} : GameKey(ge)
    \/ \E t \in Tickers : TickLock(t)
    \/ \E t \in Tickers : TickSend(t)
    \/ \E t \in Tickers, r \in {"Ok", "Err"} : TickReturn(t, r)
    \/ PlayNote
    \/ \E e \in {"DecodeError", "IOError"} : DispatchPollErr(e)
    \/ \E ev \in JoinEvents : HandlePlayerJoin(ev)
    \/ \E ok \in BOOLEAN : RegisterRemoteSocket(ok)
    \/ \E ev \in PeersEvents : HandlePeers(ev)
    \/ \E ev \in IdEvents : HandleID(ev)
    \/ \E ev \in NoteEvents : HandleNote(ev)
    \/ PlayNoteRender
    \/ \E ev \in OtherEvents : HandleOther(ev)

Spec == Init /\ [][Next]_vars

\* the steps of play_from_file
PlaybackStep ==
    \/ PlayNote
    \/ TickLock("playback")
    \/ TickSend("playback")
    \/ \E r \in {"Ok", "Err"} : TickReturn("playback", r)

\* the steps of the InputLoop from the Note arm to the end of its tick
MainTickStep ==
    \/ TickLock("main")
    \/ TickSend("main")
    \/ \E r \in {"Ok", "Err"} : TickReturn("main", r)

\* the steps of the receive loop under a guard
DispatcherGuardedStep ==
    \/ \E ok \in BOOLEAN : RegisterRemoteSocket(ok)
    \/ PlayNoteRender

\* Threads are scheduled by the operating system: a thread that can run goes
\* on, and a thread that waits for a Mutex which is free again and again gets
\* it at some point (fair lock scheduling).
FairSpec ==
    /\ Init
    /\ [][Next]_vars
    /\ SF_vars(PlaybackStep)
    /\ SF_vars(MainTickStep)
    /\ WF_vars(DispatcherGuardedStep)

TypeOK ==
    /\ pc \in [Threads -> STRING]
    /\ lock \in [Locks -> Threads \cup {"none"}]
    /\ poisoned \subseteq Locks
    /\ Len(peer_addrs) <= MaxPeers
    /\ Range(peer_addrs) \subseteq SocketAddr
    /\ color \in Colors

\* ---- claims -----------------------------------------------------------

\* the thread is inside an operation of the Sender
InSender(t) == pc[t] \in {"tick", "in_register_self", "register"}

\* the directory was last written by a Peers event
FromPeers == origin \in {"peers", "replaced"}

\* C1: when the receive loop handles Peers(port, peer_list) from source IP S,
\* the directory afterwards is peer_list with element 0 replaced by (S, port)
\* and every other element unchanged in value and position. (The event a
\* Peers step has handled is in lastPeers afterwards.)
C1_PeersPatchesSlot0 ==
    [][LET ev == lastPeers'
       IN  (/\ polled' # polled
            /\ pc'["dispatcher"] # "panicked"
            /\ ev.kind = "Peers"
            /\ HandlePeers(ev)) =>
               /\ Len(peer_addrs') = Len(ev.peers)
               /\ peer_addrs'[1] = <<ev.src[1], ev.port>>
               /\ \A i \in 2..Len(ev.peers) : peer_addrs'[i] = ev.peers[i]]_vars

\* a Peers event of two entries was handled: slot 0 was rewritten, slot 1 kept
C1_Witness ==
    /\ FromPeers
    /\ Len(lastPeers.peers) = 2
    /\ Len(peer_addrs) = 2
    /\ peer_addrs[1] = <<lastPeers.src[1], lastPeers.port>>
    /\ peer_addrs[1] # lastPeers.peers[1]
    /\ peer_addrs[2] = lastPeers.peers[2]

\* C2: Peers handling is full-replace, last-writer-wins: as long as Peers
\* events are the only ones to write the directory, it equals the patched
\* list of the Peers event handled last, whatever earlier events installed.
C2_LastPeersWins ==
    FromPeers =>
        peer_addrs = <<(<<lastPeers.src[1], lastPeers.port>>)>> \o Tail(lastPeers.peers)

\* a second Peers event removed an address the first one had installed
C2_Witness ==
    /\ origin = "replaced"
    /\ pc["dispatcher"] = "poll"
    /\ Range(peer_addrs) =
          {<<lastPeers.src[1], lastPeers.port>>} \cup Range(Tail(lastPeers.peers))

\* C3: on the host (a directory written by registrations only), handling
\* PlayerJoin(port) from source IP S leaves the address (S, port) in the
\* directory exactly once, the first time and every later time.
C3_JoinIdempotent ==
    [][(/\ pc["dispatcher"] = "register"
        /\ pc'["dispatcher"] # "register"
        /\ origin \in {"new", "join", "rejoin"}) =>
            Count(peer_addrs', <<data.src[1], data.port>>) = 1]_vars

\* the same PlayerJoin was handled a second time and the directory still
\* holds its address once
C3_Witness ==
    /\ origin = "rejoin"
    /\ pc["dispatcher"] = "poll"
    /\ \E a \in JoinSrc \X Ports : Count(peer_addrs, a) = 1 /\ Len(peer_addrs) = 1

\* C4: the operations of the Sender never overlap: a thread inside tick,
\* register_self or register_remote_socket holds the Sender guard, and a
\* fan-out in progress runs over the directory as it was at the call, which
\* no Peers replace or registration has changed meanwhile.
C4_SenderAtomic ==
    /\ \A t \in Threads : InSender(t) => lock["sender"] = t
    /\ \A t \in Tickers : pc[t] = "tick" =>
          /\ peer_addrs = tk[t].snap
          /\ tk[t].sent = SubSeq(tk[t].snap, 1, tk[t].idx - 1)

\* the InputLoop is in the middle of a fan-out while the PlaybackFeeder waits
\* for the Sender and the receive loop can still deliver a directory update
C4_Witness ==
    /\ pc["main"] = "tick"
    /\ pc["playback"] = "tick_lock"
    /\ pc["dispatcher"] = "poll"
    /\ polled < MaxEvents
    /\ Len(peer_addrs) = 2
    /\ tk["main"].idx = 2

\* C5: a DecodeError of poll_event is non-fatal: the event is dropped and the
\* receive loop goes on polling.
C5_DecodeErrorNonFatal ==
    data.kind = "DecodeError" => pc["dispatcher"] = "poll"

\* C6: when tick reports an IOError, neither the InputLoop nor the
\* PlaybackFeeder terminates and the process keeps running.
C6_SendFailureContained ==
    \A t \in Tickers : result[t] = "Err" => (pc[t] # "panicked" /\ Alive)

\* the colors of ids 0..5
ColorTable == <<"Blue", "Red", "Green", "Yellow", "Cyan", "Magenta">>

\* C7: ids 0..5 map to Blue, Red, Green, Yellow, Cyan, Magenta, every id >= 6
\* to the one fallback color, and the local color is the mapping of the ID
\* event handled last, Blue before the first.
C7_ColorOfLastId ==
    color = IF lastId < 0 THEN "Blue"
            ELSE IF lastId <= 5 THEN ColorTable[lastId + 1]
            ELSE "Black"

\* an ID event with an id above 5 was handled and the fallback color is set
C7_Witness == lastId >= 6 /\ color = "Black" /\ pc["dispatcher"] = "poll"

\* C8: when tick returns it has sent the note to every address of the
\* directory as it was at the call, in order, and to no other; on an empty
\* directory it has sent nothing, returns Ok and the caller goes on.
C8_TickFansOutToAll ==
    [][\A t \in Tickers :
         (pc[t] = "tick" /\ pc'[t] # "tick") =>
            /\ tk[t].sent = tk[t].snap
            /\ tk[t].snap = <<>> => (result'[t] = "Ok" /\ pc'[t] # "panicked")]_vars

\* a tick has sent to both addresses of a directory of two
C8_Witness ==
    \E t \in Tickers :
        /\ pc[t] = "tick"
        /\ Len(tk[t].snap) = 2
        /\ tk[t].sent = tk[t].snap

\* C9: notes go out in the order they are handed to tick: while a tick still
\* has datagrams to send, no tick called after it has sent one.
C9_TicksInOrder ==
    \A t \in Tickers : (pc[t] = "tick" /\ TickMore(t)) => sentTick <= tk[t].id

\* the second tick is sending while the first one is over
C9_Witness ==
    \E t \in Tickers :
        /\ pc[t] = "tick"
        /\ tk[t].id = 2
        /\ sentTick = 2
        /\ TickMore(t)

\* C10: a tempo <= 0 is rejected at startup: no PlayerJoin is sent and the
\* PlaybackFeeder is never started.
C10_TempoRejected ==
    tempo <= 0 => (joinSent = 0 /\ pc["playback"] = "unstarted")

\* C11: a quit key ends game_loop and main returns at once, joining nobody:
\* the step that processes the quit leaves the main thread returned whatever
\* the other threads are doing, and from then on nothing happens any more, no
\* further note is sent and the background threads are gone with the process.
C11_QuitExits ==
    [][/\ GameKey("Quit") => pc'["main"] = "exit_ok"
       /\ pc["main"] = "exit_ok" => UNCHANGED vars]_vars

\* main has returned while the receive loop sits in poll_event with datagrams
\* still to come and play_from_file has a record it has not sent
C11_Witness ==
    /\ pc["main"] = "exit_ok"
    /\ pc["dispatcher"] = "poll"
    /\ polled < MaxEvents
    /\ pc["playback"] = "tick_lock"
    /\ records # <<>>
    /\ Slept("playback")

\* C12: the keyboard guard is never held during a network send: a thread
\* inside tick, register_self or register_remote_socket does not hold it.
C12_KeyboardFreeInSend ==
    \A t \in Threads : InSender(t) => lock["keyboard"] # t

\* C13: no decoded event ends the receive loop: with no Mutex poisoned, the
\* receive thread panics only on an error returned by poll_event.
C13_DecodedEventsNonFatal ==
    [][(/\ poisoned = {}
        /\ pc["dispatcher"] # "panicked"
        /\ pc'["dispatcher"] = "panicked") =>
            \E e \in {"DecodeError", "IOError"} : DispatchPollErr(e)]_vars

\* C14: a note of play_from_file carries the local color that is current when
\* it is handed to tick, after the record's delay.
C14_PlaybackColorCurrent ==
    [][(pc["playback"] = "tick_lock" /\ pc'["playback"] = "tick") =>
            note["playback"].color = color]_vars

\* the steps of the receive loop, by the event handled
PeersStep == \E ev \in PeersEvents : HandlePeers(ev)
JoinStep ==
    \/ \E ev \in JoinEvents : HandlePlayerJoin(ev)
    \/ \E ok \in BOOLEAN : RegisterRemoteSocket(ok)
IdStep == \E ev \in IdEvents : HandleID(ev)
NoteStep == (\E ev \in NoteEvents : HandleNote(ev)) \/ PlayNoteRender
TickStep ==
    \E t \in Tickers :
        TickLock(t) \/ TickSend(t) \/ (\E r \in {"Ok", "Err"} : TickReturn(t, r))
RegisterSelfStep == MainRegisterSelfLock \/ (\E ok \in BOOLEAN : MainRegisterSelfSend(ok))

\* C15: the directory changes only in the handling of a Peers or PlayerJoin
\* event and the local color only in the handling of an ID event; ID and Note
\* handling leave the directory alone, Peers, PlayerJoin and Note handling
\* leave the color alone, tick and register_self leave both alone.
C15_DispatcherFrame ==
    [][/\ peer_addrs' # peer_addrs =>
             /\ PeersStep \/ JoinStep
             /\ ~(IdStep \/ NoteStep \/ TickStep \/ RegisterSelfStep)
       /\ color' # color =>
             /\ IdStep
             /\ ~(PeersStep \/ JoinStep \/ NoteStep \/ TickStep \/ RegisterSelfStep)]_vars

\* a directory of two set by a Peers event and a color set by an ID event,
\* with a tick in its fan-out over that directory
C15_Witness ==
    /\ Len(peer_addrs) = 2
    /\ color # "Blue"
    /\ \E t \in Tickers : pc[t] = "tick" /\ tk[t].idx = 2
    /\ joinSent = 1

\* C16: the receive loop handles one event per iteration in arrival order and
\* keeps no buffer: the notes rendered are the Note events poll_event returned,
\* in that order and each with the color of its event, and a note is rendered
\* before the next event is polled.
C16_RenderedInArrivalOrder ==
    /\ [](/\ pc["dispatcher"] = "play_note" => arrived = Append(rendered, data.color)
          /\ pc["dispatcher"] # "play_note" => rendered = arrived)
    /\ [][polled' # polled => (pc["dispatcher"] = "poll" /\ polled' = polled + 1)]_vars

\* two remote notes of different colors, neither the local color, were
\* rendered one after the other
C16_Witness ==
    /\ Len(rendered) = 2
    /\ rendered[1] # rendered[2]
    /\ color \notin Range(rendered)
    /\ pc["dispatcher"] = "poll"

\* the locks the next step of t asks for (the receive loop in poll_event
\* holds no guard and waits for a datagram, not for a lock)
Wants(t) ==
    CASE pc[t] = "tick_lock" -> {"sender"}
      [] t = "main" /\ pc[t] = "register_self" -> {"sender"}
      [] t = "main" /\ pc[t] = "spawn_playback" -> {"keyboard"}
      [] t = "main" /\ pc[t] = "peek" -> {"rustbox"}
      [] t = "main" /\ pc[t] = "key" -> {"keyboard"}
      [] t = "playback" /\ pc[t] = "next" -> {"keyboard"}
      [] t = "dispatcher" /\ pc[t] = "play_note" -> {"rustbox"}
      [] OTHER -> {}

\* the threads that hold a lock t is waiting for
WaitsOn(t) == {lock[l] : l \in Wants(t)} \ {"none"}

\* the threads t waits on, directly or through others
WaitsOnStar(t) ==
    LET r1 == WaitsOn(t)
        r2 == r1 \cup UNION {WaitsOn(u) : u \in r1}
    IN  r2 \cup UNION {WaitsOn(u) : u \in r2}

\* C18: the threads cannot deadlock on the keyboard, Sender and RustBox locks:
\* no thread waits, through any chain of lock holders, on itself; no thread
\* asks for the keyboard while it holds the Sender; and the only nestings are
\* keyboard-then-Sender in the InputLoop and keyboard-then-RustBox in the
\* receive loop.
C18_NoLockCycle ==
    \A t \in Threads :
        /\ t \notin WaitsOnStar(t)
        /\ lock["sender"] = t => "keyboard" \notin Wants(t)
        /\ (Held(t) # {} /\ Wants(t) # {}) =>
              \/ t = "main" /\ Held(t) = {"keyboard"} /\ Wants(t) = {"sender"}
              \/ t = "dispatcher" /\ Held(t) = {"keyboard"} /\ Wants(t) = {"rustbox"}

\* a chain of waiting threads that ends in one that can run: play_from_file
\* waits for the keyboard, which the InputLoop holds while it waits for the
\* Sender, which the receive loop holds inside register_remote_socket
C18_Witness ==
    /\ WaitsOn("playback") = {"main"}
    /\ WaitsOn("main") = {"dispatcher"}
    /\ WaitsOn("dispatcher") = {}
    /\ pc["dispatcher"] = "register"

\* C19: register_self is called once per process, after the Receiver is bound
\* and the receive thread is started and before any note is handed to tick;
\* it is not repeated, and input is accepted without waiting for an ID or
\* Peers event.
C19_JoinOnceBeforeNotes ==
    /\ joinSent <= 1
    /\ joinSent = 1 => (pc["main"] # "start" /\ pc["dispatcher"] # "unstarted")
    /\ (nextTick > 1 \/ keys > 0 \/ pc["playback"] # "unstarted"
          \/ pc["main"] \in {"peek", "key", "tick_lock", "tick", "exit_ok"}) => joinSent = 1

\* a key was turned into a note and handed to tick after the one register_self,
\* with no event polled yet
C19_Witness ==
    /\ joinSent = 1
    /\ pc["main"] = "tick"
    /\ tk["main"].id = 1
    /\ polled = 0
    /\ lastId = -1
    /\ lastPeers = NoEvent

\* play_from_file is over without a failure, or the process is
PlaybackOver == pc["playback"] \in {"done", "panicked"} \/ ~Alive

\* C17: with fair lock scheduling and no send failure, play_from_file, once
\* started on a finite record sequence, hands every record's note to tick and
\* terminates, unless the process ends first.
C17_PlaybackTerminates ==
    (pc["playback"] = "next") ~> PlaybackOver

\* the same for a tempo above zero
C17_PlaybackTerminatesAtTempo ==
    (pc["playback"] = "next" /\ tempo > 0) ~> PlaybackOver

====
